---- MODULE Spec2Model ----
(***************************************************************************)
(* A model of spotify-dl's download loop (src/main.rs, download_tracks)    *)
(* and of its MP3 sink (src/file_sink_mp3.rs, FileSinkMP3).                *)
(*                                                                         *)
(* A string is a sequence of symbols.  A symbol is one character, or a     *)
(* fixed word of characters without a dot taken as a unit (an extension    *)
(* word such as "mp3", the separators " - " and ", ").  A file's contents  *)
(* are a sequence of bytes.                                                *)
(***************************************************************************)
EXTENDS Integers, Sequences, FiniteSets, TLC

VARIABLES
    tracks,                 \* download_tracks' argument `tracks`, resolved to their metadata
    ordered,                \* download_tracks' argument `ordered`
    delete_unknown_songs,   \* download_tracks' argument `delete_unknown_songs`
    dir,                    \* the destination directory: file name -> contents
    pc,                     \* where download_tracks is
    i,                      \* the loop index of main.rs:120, counted from 1
    all_files,              \* main.rs:119
    sink,                   \* the FileSinkMP3 of the current track, if one is open
    stage,                  \* where FileSinkMP3::stop is
    mp3_out_buffer,         \* file_sink_mp3.rs:76
    tmp,                    \* the temporary file of the atomic write, if there is one
    stop_result,            \* what FileSinkMP3::stop came to
    todo,                   \* the reconciler's directory iterator: entries not yet yielded
    run,                    \* 1 in the first call of download_tracks, 2 in the second
    id3_tag,                \* the Id3Tag FileSinkMP3::stop gave the encoder, if any
    input,                  \* file_sink_mp3.rs:71, once it is made
    mfc_call,               \* a call of make_filename_compatible: its argument and result
    hist                    \* what happened (read by the properties only)

vars == <<tracks, ordered, delete_unknown_songs, dir, pc, i, all_files, sink, stage,
          mp3_out_buffer, tmp, stop_result, todo, run, id3_tag, input, mfc_call, hist>>

\* ---------------------------------------------------------------- bounds

MaxTracks == 2
MaxFiles == 2
MaxSamples == 1

\* ---------------------------------------------------------------- strings

\* Option<T>: None, or Some(x)
None == {}
Some(x) == {x}
Get(o) == CHOOSE x \in o : TRUE

RECURSIVE JoinWith(_, _)
\* The names of `names` in order, each followed by `sep`.
JoinWith(names, sep) ==
    IF names = <<>> THEN <<>>
    ELSE Head(names) \o sep \o JoinWith(Tail(names), sep)

RECURSIVE join(_, _)
\* [String]::join: the names in order with `sep` between them.
join(names, sep) ==
    IF names = <<>> THEN <<>>
    ELSE IF Len(names) = 1 THEN names[1]
    ELSE Head(names) \o sep \o join(Tail(names), sep)

RECURSIVE TrimEndMatches(_, _)
\* str::trim_end_matches: `s` without every trailing repetition of `pat`.
TrimEndMatches(s, pat) ==
    IF Len(pat) > 0 /\ Len(s) >= Len(pat)
       /\ SubSeq(s, Len(s) - Len(pat) + 1, Len(s)) = pat
    THEN TrimEndMatches(SubSeq(s, 1, Len(s) - Len(pat)), pat)
    ELSE s

InvalidChars == {"<", ">", ":", "'", "\"", "/", "\\", "|", "?", "*"}
NonAsciiChars == {"U+00E9"}
ControlChars == {"\t", "\n"}

IsAscii(c) == c \notin NonAsciiChars
IsControl(c) == c \in ControlChars

\* char::len_utf8: one byte for an ASCII character, two for U+00E9.
LenUtf8(c) == IF c \in NonAsciiChars THEN 2 ELSE 1

\* A slip: only the characters of the list are removed.
make_filename_compatible_list_only(filename) ==
    SelectSeq(filename, LAMBDA c : c \notin InvalidChars)

RECURSIVE make_filename_compatible(_)
make_filename_compatible(filename) ==
    IF filename = <<>> THEN <<>>
    ELSE LET c == Head(filename)
             rest == make_filename_compatible(Tail(filename))
         IN IF c \notin InvalidChars /\ IsAscii(c) /\ ~IsControl(c) /\ LenUtf8(c) = 1
            THEN <<c>> \o rest
            ELSE rest

RECURSIVE LastDotUpTo(_, _)
\* The position of the last "." among the first k symbols of a name, 0 when
\* there is none.
LastDotUpTo(name, k) ==
    IF k = 0 THEN 0
    ELSE IF name[k] = "." THEN k
    ELSE LastDotUpTo(name, k - 1)

\* The position of the last "." of a name, 0 when it has none.
LastDot(name) == LastDotUpTo(name, Len(name))

\* Path::file_stem of a file name: the whole name when it has no dot or its
\* only dot leads it, the part before the last dot otherwise.
file_stem(name) ==
    IF LastDot(name) <= 1 THEN name ELSE SubSeq(name, 1, LastDot(name) - 1)

\* Path::extension of a file name: None when it has no dot or its only dot
\* leads it, the part after the last dot otherwise.
extension(name) ==
    IF LastDot(name) <= 1 THEN None
    ELSE Some(SubSeq(name, LastDot(name) + 1, Len(name)))

\* format!("{:03}", n)
Pad3(n) ==
    IF n < 10 THEN <<"0", "0", ToString(n)>>
    ELSE IF n < 100 THEN <<"0", ToString(n)>>
    ELSE <<ToString(n)>>

extension_from_encoding == <<"mp3">>

\* ---------------------------------------------------------------- inputs

DASH == " - "
COMMA == ", "
ArtistX == <<"X">>
ArtistY == <<"Y">>

\* The tracks a playlist is drawn from, as Track::get, Album::get and
\* Artist::get resolve them.  TrackC's title sanitizes to TrackA's.
TrackA == [artists |-> <<ArtistX>>, track_name |-> <<"s">>, album |-> <<"L">>]
TrackB == [artists |-> <<ArtistX, ArtistY>>, track_name |-> <<"t", ".", "u">>,
           album |-> <<"L">>]
TrackC == [artists |-> <<ArtistX>>, track_name |-> <<"s", "/">>, album |-> <<"M">>]
TrackSet == {TrackA, TrackB, TrackC}

\* The file names the destination directory may hold when a run starts:
\* "X - s.wav", "X - s" and "001 - X - s.flac".
InitNames ==
    { <<"X", DASH, "s", ".", "wav">>,
      <<"X", DASH, "s">>,
      <<"0", "0", "1", DASH, "X", DASH, "s", ".", "flac">> }

\* The contents of a file that was there before the run.
OldData == <<0>>

\* What the codec may return from encode and from flush (the codec is LAME).
EncodeOutputs == {<<1>>}
FlushOutputs == {<<2>>}

\* The packets the player may deliver: samples in halves (2 is 1.0).
PacketSet == {<<2, -2>>, <<1>>}

RECURSIVE SeqsUpTo(_, _)
SeqsUpTo(S, n) ==
    IF n = 0 THEN {<<>>}
    ELSE LET shorter == SeqsUpTo(S, n - 1)
         IN shorter \cup {Append(q, x) : q \in shorter, x \in S}

\* ---------------------------------------------------------------- names of a track

\* main.rs:129-144
artist_name(track) ==
    IF Len(track.artists) > 1
    THEN TrimEndMatches(JoinWith(track.artists, <<COMMA>>), <<COMMA>>)
    ELSE track.artists[1]

\* main.rs:124-144
TrackMetadataOf(track) ==
    [artists |-> track.artists, track_name |-> track.track_name, album |-> track.album]

\* main.rs:146
full_track_name(track) == artist_name(track) \o <<DASH>> \o track.track_name

\* main.rs:147, tabulated over the tracks of TrackSet
full_track_name_clean ==
    [track \in TrackSet |-> make_filename_compatible(full_track_name(track))]

\* main.rs:149-155; `idx` is i + 1
filename(track, idx, ord) ==
    IF ord
    THEN Pad3(idx) \o <<DASH>> \o full_track_name_clean[track]
         \o <<".">> \o extension_from_encoding
    ELSE full_track_name_clean[track] \o <<".">> \o extension_from_encoding

\* main.rs:160
file_name(track, idx, ord) == file_stem(filename(track, idx, ord))

\* A slip: the entry's whole name is compared with the track's path.
file_exists_same_path(d, stem) ==
    \E entry \in DOMAIN d : entry = stem \o <<".">> \o extension_from_encoding

\* A slip: only entries with an audio extension count.
file_exists_audio_only(d, stem) ==
    \E entry \in DOMAIN d :
        /\ file_stem(entry) = stem
        /\ extension(entry) \in {Some(<<"mp3">>), Some(<<"flac">>), Some(<<"wav">>), Some(<<"ogg">>)}

\* A slip: an entry that has the track's own extension does not count.
file_exists_other_extension(d, stem) ==
    \E entry \in DOMAIN d :
        file_stem(entry) = stem /\ extension(entry) # Some(extension_from_encoding)

\* A slip: the entry's whole name is compared with the stem.
file_exists_without_stem(d, stem) == \E entry \in DOMAIN d : entry = stem

\* main.rs:166-176
file_exists(d, stem) == \E entry \in DOMAIN d : file_stem(entry) = stem

\* A slip in the allow-list: flac is forgotten.
is_audio_extension_without_flac(ext) ==
    ext \in {Some(<<"mp3">>), Some(<<"wav">>), Some(<<"ogg">>)}

\* main.rs:206-210
is_audio_extension(ext) ==
    ext \in {Some(<<"mp3">>), Some(<<"flac">>), Some(<<"wav">>), Some(<<"ogg">>)}

\* main.rs:215
in_all_files(files, stem) == \E k \in 1..Len(files) : files[k] = stem

\* ---------------------------------------------------------------- directory

EmptyDir == [n \in {} |-> <<>>]
WithFile(d, name, data) ==
    [n \in DOMAIN d \cup {name} |-> IF n = name THEN data ELSE d[n]]
WithoutFile(d, name) == [n \in DOMAIN d \ {name} |-> d[n]]

\* ---------------------------------------------------------------- state

\* What FileSinkMP3::stop came to: nothing yet, Ok(()), Err(SinkError::OnWrite(cause)),
\* or a panic (an `expect` that failed) with its message.
NotReturned == <<"not returned">>
Ok == <<"Ok">>
OnWrite(cause) == <<"Err", "OnWrite", cause>>
Panic(msg) == <<"panic", msg>>

\* What a run has done so far: the directory when the run started and when
\* the reconciler listed it, the entries the reconciler deleted, the tracks
\* (by index) that opened a sink, were skipped, and committed a file, and
\* the tracks the run before committed, the call whose failure made the
\* run panic, the tracks whose sink was asked to stop and whose stop has
\* ended, and the packets delivered to the sink that is open.
NoHist ==
    [before |-> EmptyDir, scan |-> None, deleted |-> {}, opened |-> {},
     skipped |-> {}, committed |-> {}, prev_committed |-> {}, panic |-> None,
     requested |-> {}, finalized |-> {}, packets |-> <<>>]

Init ==
    /\ tracks \in SeqsUpTo(TrackSet, MaxTracks)
    /\ ordered \in BOOLEAN
    /\ delete_unknown_songs \in BOOLEAN
    /\ \E S \in SUBSET InitNames :
          /\ Cardinality(S) <= MaxFiles
          /\ dir = [n \in S |-> OldData]
    /\ pc = "loop"
    /\ i = 1
    /\ all_files = <<>>
    /\ sink = None
    /\ stage = "idle"
    /\ mp3_out_buffer = <<>>
    /\ tmp = None
    /\ stop_result = NotReturned
    /\ todo = {}
    /\ run = 1
    /\ id3_tag = None
    /\ input = None
    /\ mfc_call = None
    /\ hist = [NoHist EXCEPT !.before = dir]

\* ---------------------------------------------------------------- the sink

\* file_sink_mp3.rs:31-39
open(path) ==
    [sink |-> path, content |-> <<>>, metadata |-> None, compression |-> 4]

\* file_sink_mp3.rs:22-24
add_metadata(s, meta) == [s EXCEPT !.metadata = Some(meta)]

\* Converter::f64_to_s16 on one sample given in halves: scaled to 16 bits
\* and saturated.
F64ToS16(v) ==
    LET scaled == v * 16384
    IN IF scaled > 32767 THEN 32767 ELSE IF scaled < -32768 THEN -32768 ELSE scaled

\* A slip: write keeps the samples of the last packet only.
write_last_packet(s, packet) ==
    [s EXCEPT !.content = [k \in 1..Len(packet) |-> F64ToS16(packet[k])]]

\* file_sink_mp3.rs:96-100
write(s, packet) ==
    [s EXCEPT !.content = s.content \o [k \in 1..Len(packet) |-> F64ToS16(packet[k])]]

\* file_sink_mp3.rs:68
Left(content) == [k \in 1..((Len(content) + 1) \div 2) |-> content[2 * k - 1]]

\* file_sink_mp3.rs:69
Right(content) == [k \in 1..(Len(content) \div 2) |-> content[2 * k]]

\* A slip: the title and the album change places.
Id3TagSwapped(metadata) ==
    IF metadata = None THEN None
    ELSE Some([title |-> Get(metadata).album,
               artist |-> join(Get(metadata).artists, <<COMMA>>),
               album |-> Get(metadata).track_name,
               year |-> <<>>, comment |-> <<>>])

\* file_sink_mp3.rs:53-64: the tag set on the encoder, None when set_id3_tag
\* is not called.
Id3TagOf(metadata) ==
    IF metadata = None THEN None
    ELSE Some([title |-> Get(metadata).track_name,
               artist |-> join(Get(metadata).artists, <<COMMA>>),
               album |-> Get(metadata).album,
               year |-> <<>>, comment |-> <<>>])

\* file_sink_mp3.rs:71-74
DualPcm(content) == [left |-> Left(content), right |-> Right(content)]

\* ---------------------------------------------------------------- download_tracks: the loop

CurTrack == tracks[i]
CurFileName == file_name(CurTrack, i, ordered)
CurPath == filename(CurTrack, i, ordered)

InLoop == pc = "loop" /\ i <= Len(tracks)

\* main.rs:160-171: the name is recorded, then the listing of the directory
\* fails (read_dir, or one of its entries) and the unwrap panics.
GuardScanFail ==
    /\ InLoop
    /\ all_files' = Append(all_files, CurFileName)
    /\ pc' = "aborted"
    /\ hist' = [hist EXCEPT !.panic = Some("read_dir")]
    /\ UNCHANGED <<tracks, ordered, delete_unknown_songs, dir, i, sink, stage,
                   mp3_out_buffer, tmp, stop_result, todo, run,
                   id3_tag, input, mfc_call>>

\* A slip: the name is recorded only when the track is downloaded.
GuardSkipWithoutPush ==
    /\ InLoop
    /\ file_exists(dir, CurFileName)
    /\ i' = i + 1
    /\ hist' = [hist EXCEPT !.skipped = @ \cup {i}]
    /\ UNCHANGED <<tracks, ordered, delete_unknown_songs, dir, pc, all_files, sink, stage,
                   mp3_out_buffer, tmp, stop_result, todo, run,
                   id3_tag, input, mfc_call>>

\* main.rs:160-176, 197-200: an entry has the track's stem; the track is skipped.
GuardSkip ==
    /\ InLoop
    /\ file_exists(dir, CurFileName)
    /\ all_files' = Append(all_files, CurFileName)
    /\ i' = i + 1
    /\ hist' = [hist EXCEPT !.skipped = @ \cup {i}]
    /\ UNCHANGED <<tracks, ordered, delete_unknown_songs, dir, pc, sink, stage,
                   mp3_out_buffer, tmp, stop_result, todo, run,
                   id3_tag, input, mfc_call>>

\* A slip: the sink is handed to the player without the metadata.
GuardDownloadWithoutMetadata ==
    /\ InLoop
    /\ ~file_exists(dir, CurFileName)
    /\ all_files' = Append(all_files, CurFileName)
    /\ sink' = Some(open(CurPath))
    /\ pc' = "playing"
    /\ hist' = [hist EXCEPT !.opened = @ \cup {i}, !.packets = <<>>]
    /\ UNCHANGED <<tracks, ordered, delete_unknown_songs, dir, i, stage,
                   mp3_out_buffer, tmp, stop_result, todo, run,
                   id3_tag, input, mfc_call>>

\* main.rs:160-192: no entry has the track's stem; a sink is opened on the
\* track's path, given the metadata, and handed to the player.
GuardDownload ==
    /\ InLoop
    /\ ~file_exists(dir, CurFileName)
    /\ all_files' = Append(all_files, CurFileName)
    /\ sink' = Some(add_metadata(open(CurPath), TrackMetadataOf(CurTrack)))
    /\ pc' = "playing"
    /\ hist' = [hist EXCEPT !.opened = @ \cup {i}, !.packets = <<>>]
    /\ UNCHANGED <<tracks, ordered, delete_unknown_songs, dir, i, stage,
                   mp3_out_buffer, tmp, stop_result, todo, run,
                   id3_tag, input, mfc_call>>

\* file_sink_mp3.rs:96-100: the player delivers a packet.
SinkWrite ==
    /\ pc = "playing"
    /\ \E packet \in PacketSet :
          /\ Len(Get(sink).content) + Len(packet) <= MaxSamples
          /\ sink' = Some(write(Get(sink), packet))
          /\ hist' = [hist EXCEPT !.packets = Append(@, packet)]
    /\ UNCHANGED <<tracks, ordered, delete_unknown_songs, dir, pc, i, all_files, stage,
                   mp3_out_buffer, tmp, stop_result, todo, run,
                   id3_tag, input, mfc_call>>

\* main.rs:193-195: the end of the track is signalled and the player is
\* stopped, which calls FileSinkMP3::stop.
EndOfTrack ==
    /\ pc = "playing"
    /\ pc' = "stopping"
    /\ stage' = "build"
    /\ hist' = [hist EXCEPT !.requested = @ \cup {i}]
    /\ UNCHANGED <<tracks, ordered, delete_unknown_songs, dir, i, all_files, sink,
                   mp3_out_buffer, tmp, stop_result, todo, run,
                   id3_tag, input, mfc_call>>

\* ---------------------------------------------------------------- FileSinkMP3::stop

\* stop ends with result r; its locals are dropped.
StopReturns(r) ==
    /\ stop_result' = r
    /\ mp3_out_buffer' = <<>>
    /\ id3_tag' = None
    /\ input' = None
    /\ hist' = [hist EXCEPT !.finalized = @ \cup {i},
                            !.committed = IF r = Ok THEN @ \cup {i} ELSE @]
    /\ stage' = "idle"
    /\ pc' = "stopped"

InStop(st) == pc = "stopping" /\ stage = st

\* file_sink_mp3.rs:48-65: the encoder is configured and built.
StopBuild ==
    /\ InStop("build")
    /\ id3_tag' = Id3TagOf(Get(sink).metadata)
    /\ stage' = "encode"
    /\ UNCHANGED <<tracks, ordered, delete_unknown_songs, dir, pc, i, all_files, sink,
                   mp3_out_buffer, tmp, stop_result, todo, run, hist,
                   input, mfc_call>>

\* file_sink_mp3.rs:48-65: one of the `expect`s of the configuration fails.
StopBuildFail ==
    /\ InStop("build")
    /\ StopReturns(Panic("To initialize LAME encoder"))
    /\ UNCHANGED <<tracks, ordered, delete_unknown_songs, dir, i, all_files, sink,
                   tmp, todo, run,
                   mfc_call>>

\* file_sink_mp3.rs:67-81: the channels are split and encoded.
StopEncode ==
    /\ InStop("encode")
    /\ input' = Some(DualPcm(Get(sink).content))
    /\ \E out \in EncodeOutputs : mp3_out_buffer' = out
    /\ stage' = "flush"
    /\ UNCHANGED <<tracks, ordered, delete_unknown_songs, dir, pc, i, all_files, sink,
                   tmp, stop_result, todo, run, hist,
                   id3_tag, mfc_call>>

\* file_sink_mp3.rs:78
StopEncodeFail ==
    /\ InStop("encode")
    /\ StopReturns(Panic("To encode"))
    /\ UNCHANGED <<tracks, ordered, delete_unknown_songs, dir, i, all_files, sink,
                   tmp, todo, run,
                   mfc_call>>

\* file_sink_mp3.rs:83-86: the flush output is appended.
StopFlush ==
    /\ InStop("flush")
    /\ \E out \in FlushOutputs : mp3_out_buffer' = mp3_out_buffer \o out
    /\ stage' = "write"
    /\ UNCHANGED <<tracks, ordered, delete_unknown_songs, dir, pc, i, all_files, sink,
                   tmp, stop_result, todo, run, hist,
                   id3_tag, input, mfc_call>>

\* file_sink_mp3.rs:83
StopFlushFail ==
    /\ InStop("flush")
    /\ StopReturns(Panic("to flush"))
    /\ UNCHANGED <<tracks, ordered, delete_unknown_songs, dir, i, all_files, sink,
                   tmp, todo, run,
                   mfc_call>>

\* What one call of io::Write::write may leave in the file: it accepts some
\* prefix of the buffer and returns its length.
WriteAccepts(buf) == {SubSeq(buf, 1, n) : n \in 0..Len(buf)}

\* file_sink_mp3.rs:88-89: AtomicFile::write makes a temporary file and runs
\* the closure on it, which calls f.write once.
StopWrite ==
    /\ InStop("write")
    /\ \E written \in WriteAccepts(mp3_out_buffer) : tmp' = Some(written)
    /\ stage' = "commit"
    /\ UNCHANGED <<tracks, ordered, delete_unknown_songs, dir, pc, i, all_files, sink,
                   mp3_out_buffer, stop_result, todo, run, hist,
                   id3_tag, input, mfc_call>>

\* file_sink_mp3.rs:88-91: the temporary file cannot be made, or f.write
\* returns an error; the temporary file is dropped.
StopWriteFail ==
    /\ InStop("write")
    /\ tmp' = None
    /\ StopReturns(OnWrite("write failed"))
    /\ UNCHANGED <<tracks, ordered, delete_unknown_songs, dir, i, all_files, sink,
                   todo, run,
                   mfc_call>>

\* file_sink_mp3.rs:88-93: the temporary file is renamed onto the path
\* (OverwriteBehavior::AllowOverwrite) and stop returns Ok.
StopCommit ==
    /\ InStop("commit")
    /\ dir' = WithFile(dir, Get(sink).sink, Get(tmp))
    /\ tmp' = None
    /\ StopReturns(Ok)
    /\ UNCHANGED <<tracks, ordered, delete_unknown_songs, i, all_files, sink,
                   todo, run,
                   mfc_call>>

\* file_sink_mp3.rs:88-91: the rename fails; the temporary file is dropped.
StopCommitFail ==
    /\ InStop("commit")
    /\ tmp' = None
    /\ StopReturns(OnWrite("rename failed"))
    /\ UNCHANGED <<tracks, ordered, delete_unknown_songs, dir, i, all_files, sink,
                   todo, run,
                   mfc_call>>

\* A slip: the wait for the end of the track may time out.
AdvanceOnTimeout ==
    /\ pc \in {"playing", "stopped"}
    /\ sink' = None
    /\ stop_result' = NotReturned
    /\ i' = i + 1
    /\ pc' = "loop"
    /\ hist' = [hist EXCEPT !.packets = <<>>]
    /\ UNCHANGED <<tracks, ordered, delete_unknown_songs, dir, all_files, stage,
                   mp3_out_buffer, tmp, todo, run, id3_tag, input, mfc_call>>

\* A slip: the loop goes on while the player still holds its sink.
AdvanceKeepingSink ==
    /\ pc = "stopped"
    /\ stop_result' = NotReturned
    /\ i' = i + 1
    /\ pc' = "loop"
    /\ hist' = [hist EXCEPT !.packets = <<>>]
    /\ UNCHANGED <<tracks, ordered, delete_unknown_songs, dir, all_files, sink, stage,
                   mp3_out_buffer, tmp, todo, run, id3_tag, input, mfc_call>>

\* main.rs:195-201: the iteration ends whatever stop came to; the player and
\* its sink are dropped.
Advance ==
    /\ pc = "stopped"
    /\ sink' = None
    /\ stop_result' = NotReturned
    /\ i' = i + 1
    /\ pc' = "loop"
    /\ hist' = [hist EXCEPT !.packets = <<>>]
    /\ UNCHANGED <<tracks, ordered, delete_unknown_songs, dir, all_files, stage,
                   mp3_out_buffer, tmp, todo, run,
                   id3_tag, input, mfc_call>>

\* ---------------------------------------------------------------- download_tracks: the reconciler

AfterLoop == pc = "loop" /\ i > Len(tracks)

\* A slip: the reconciler runs whatever the flag says.
cleanup_always == TRUE

\* main.rs:203
cleanup_enabled == delete_unknown_songs

\* main.rs:203, 221: cleanup is off; the run ends.
FinishWithoutCleanup ==
    /\ AfterLoop
    /\ ~cleanup_enabled
    /\ pc' = "done"
    /\ UNCHANGED <<tracks, ordered, delete_unknown_songs, dir, i, all_files, sink, stage,
                   mp3_out_buffer, tmp, stop_result, todo, run, hist,
                   id3_tag, input, mfc_call>>

\* main.rs:203-204: cleanup is on; the directory is opened for listing.
ReconcileOpen ==
    /\ AfterLoop
    /\ cleanup_enabled
    /\ todo' = DOMAIN dir
    /\ pc' = "reconcile"
    /\ hist' = [hist EXCEPT !.scan = Some(dir)]
    /\ UNCHANGED <<tracks, ordered, delete_unknown_songs, dir, i, all_files, sink, stage,
                   mp3_out_buffer, tmp, stop_result, run,
                   id3_tag, input, mfc_call>>

\* main.rs:204: read_dir fails and the unwrap panics.
ReconcileOpenFail ==
    /\ AfterLoop
    /\ cleanup_enabled
    /\ pc' = "aborted"
    /\ hist' = [hist EXCEPT !.panic = Some("read_dir")]
    /\ UNCHANGED <<tracks, ordered, delete_unknown_songs, dir, i, all_files, sink, stage,
                   mp3_out_buffer, tmp, stop_result, todo, run,
                   id3_tag, input, mfc_call>>

\* main.rs:206-215: whether the reconciler removes an entry.
is_unknown_song(entry, files) ==
    /\ is_audio_extension(extension(entry))
    /\ ~in_all_files(files, file_stem(entry))

\* main.rs:204-215: the iterator yields an entry that is kept.
ReconcileKeep ==
    /\ pc = "reconcile"
    /\ \E entry \in todo :
          /\ ~is_unknown_song(entry, all_files)
          /\ todo' = todo \ {entry}
    /\ UNCHANGED <<tracks, ordered, delete_unknown_songs, dir, pc, i, all_files, sink,
                   stage, mp3_out_buffer, tmp, stop_result, run, hist,
                   id3_tag, input, mfc_call>>

\* main.rs:204-218: the iterator yields an entry that is removed.
ReconcileDelete ==
    /\ pc = "reconcile"
    /\ \E entry \in todo :
          /\ is_unknown_song(entry, all_files)
          /\ todo' = todo \ {entry}
          /\ dir' = WithoutFile(dir, entry)
          /\ hist' = [hist EXCEPT !.deleted = @ \cup {entry}]
    /\ UNCHANGED <<tracks, ordered, delete_unknown_songs, pc, i, all_files, sink,
                   stage, mp3_out_buffer, tmp, stop_result, run,
                   id3_tag, input, mfc_call>>

\* main.rs:205: the iterator yields an error and the unwrap panics; the
\* iterator is dropped.
ReconcileEntryFail ==
    /\ pc = "reconcile"
    /\ todo # {}
    /\ todo' = {}
    /\ pc' = "aborted"
    /\ hist' = [hist EXCEPT !.panic = Some("read_dir")]
    /\ UNCHANGED <<tracks, ordered, delete_unknown_songs, dir, i, all_files, sink, stage,
                   mp3_out_buffer, tmp, stop_result, run,
                   id3_tag, input, mfc_call>>

\* main.rs:217: remove_file fails (the entry is a directory, say) and the
\* unwrap panics.
ReconcileRemoveFail ==
    /\ pc = "reconcile"
    /\ \E entry \in todo : is_unknown_song(entry, all_files)
    /\ todo' = {}
    /\ pc' = "aborted"
    /\ hist' = [hist EXCEPT !.panic = Some("remove_file")]
    /\ UNCHANGED <<tracks, ordered, delete_unknown_songs, dir, i, all_files, sink, stage,
                   mp3_out_buffer, tmp, stop_result, run,
                   id3_tag, input, mfc_call>>

\* main.rs:219-221: the iterator is exhausted; the run ends.
ReconcileEnd ==
    /\ pc = "reconcile"
    /\ todo = {}
    /\ pc' = "done"
    /\ UNCHANGED <<tracks, ordered, delete_unknown_songs, dir, i, all_files, sink, stage,
                   mp3_out_buffer, tmp, stop_result, todo, run, hist,
                   id3_tag, input, mfc_call>>

\* main.rs:271-280: the program is run again on the same destination with
\* the same track list and the same options, after a first run that
\* committed a file for every track.
Rerun ==
    /\ pc = "done"
    /\ run = 1
    /\ hist.committed = 1..Len(tracks)
    /\ run' = 2
    /\ pc' = "loop"
    /\ i' = 1
    /\ all_files' = <<>>
    /\ todo' = {}
    /\ hist' = [NoHist EXCEPT !.before = dir, !.prev_committed = hist.committed]
    /\ UNCHANGED <<tracks, ordered, delete_unknown_songs, dir, sink, stage,
                   mp3_out_buffer, tmp, stop_result,
                   id3_tag, input, mfc_call>>

Next ==
    \/ GuardScanFail
    \/ GuardSkip
    \/ GuardDownload
    \/ SinkWrite
    \/ EndOfTrack
    \/ StopBuild
    \/ StopBuildFail
    \/ StopEncode
    \/ StopEncodeFail
    \/ StopFlush
    \/ StopFlushFail
    \/ StopWrite
    \/ StopWriteFail
    \/ StopCommit
    \/ StopCommitFail
    \/ Advance
    \/ FinishWithoutCleanup
    \/ ReconcileOpen
    \/ ReconcileOpenFail
    \/ ReconcileKeep
    \/ ReconcileDelete
    \/ ReconcileEntryFail
    \/ ReconcileRemoveFail
    \/ ReconcileEnd
    \/ Rerun

Spec == Init /\ [][Next]_vars

\* The steps download_tracks and FileSinkMP3::stop take by themselves: every
\* step but the player's deliveries and its end-of-track signal, and a
\* second call of the program.
ProgramStep ==
    \/ GuardScanFail \/ GuardSkip \/ GuardDownload
    \/ StopBuild \/ StopBuildFail \/ StopEncode \/ StopEncodeFail
    \/ StopFlush \/ StopFlushFail \/ StopWrite \/ StopWriteFail
    \/ StopCommit \/ StopCommitFail \/ Advance
    \/ FinishWithoutCleanup \/ ReconcileOpen \/ ReconcileOpenFail
    \/ ReconcileKeep \/ ReconcileDelete \/ ReconcileEntryFail
    \/ ReconcileRemoveFail \/ ReconcileEnd

\* The program runs on while it has a step to take (every call of stop and
\* every directory operation returns), and the player signals the end of
\* every track it plays (main.rs:193).
FairSpec == Spec /\ WF_vars(ProgramStep) /\ WF_vars(EndOfTrack)

\* ---------------------------------------------------------------- the sink alone

\* The samples a sink may be given before it is stopped.
MaxSinkSamples == 3

\* The metadata a sink may be given: one artist, two, three.
MetadataSet ==
    { TrackMetadataOf(TrackA), TrackMetadataOf(TrackB),
      [artists |-> <<ArtistY, ArtistX, ArtistY>>, track_name |-> <<"T">>,
       album |-> <<"A", "l">>] }

\* file_sink_mp3.rs:31-39: a sink has just been opened on the path of a
\* track; the path may hold a file already.
InitSink ==
    /\ \E track \in TrackSet : tracks = <<track>>
    /\ ordered \in BOOLEAN
    /\ delete_unknown_songs = FALSE
    /\ dir \in {EmptyDir, WithFile(EmptyDir, filename(tracks[1], 1, ordered), OldData)}
    /\ pc = "playing"
    /\ i = 1
    /\ all_files = <<file_name(tracks[1], 1, ordered)>>
    /\ sink = Some(open(filename(tracks[1], 1, ordered)))
    /\ stage = "idle"
    /\ mp3_out_buffer = <<>>
    /\ tmp = None
    /\ stop_result = NotReturned
    /\ todo = {}
    /\ run = 1
    /\ id3_tag = None
    /\ input = None
    /\ mfc_call = None
    /\ hist = [NoHist EXCEPT !.before = dir, !.opened = {1}]

\* file_sink_mp3.rs:22-24: the owner of the sink attaches metadata.
SinkAddMetadata ==
    /\ pc = "playing"
    /\ \E meta \in MetadataSet : sink' = Some(add_metadata(Get(sink), meta))
    /\ UNCHANGED <<tracks, ordered, delete_unknown_songs, dir, pc, i, all_files, stage,
                   mp3_out_buffer, tmp, stop_result, todo, run, hist,
                   id3_tag, input, mfc_call>>

\* file_sink_mp3.rs:96-100: the player delivers a packet.
PlayerWrite ==
    /\ pc = "playing"
    /\ \E packet \in PacketSet :
          /\ Len(Get(sink).content) + Len(packet) <= MaxSinkSamples
          /\ sink' = Some(write(Get(sink), packet))
          /\ hist' = [hist EXCEPT !.packets = Append(@, packet)]
    /\ UNCHANGED <<tracks, ordered, delete_unknown_songs, dir, pc, i, all_files, stage,
                   mp3_out_buffer, tmp, stop_result, todo, run,
                   id3_tag, input, mfc_call>>

NextSink ==
    \/ SinkAddMetadata
    \/ PlayerWrite
    \/ EndOfTrack
    \/ StopBuild
    \/ StopBuildFail
    \/ StopEncode
    \/ StopEncodeFail
    \/ StopFlush
    \/ StopFlushFail
    \/ StopWrite
    \/ StopWriteFail
    \/ StopCommit
    \/ StopCommitFail

SinkSpec == InitSink /\ [][NextSink]_vars

\* ---------------------------------------------------------------- make_filename_compatible alone

\* The longest name drawn from NameChars.
MaxNameLen == 3

\* Characters of every kind: kept ones, removed ones of the list, a control
\* character and a character that is not ASCII.
NameChars == {"A", " ", "/", "*", "\t", "U+00E9"}

\* "A/B: C*D"
ExampleName == <<"A", "/", "B", ":", " ", "C", "*", "D">>

\* Every character of the list, between two kept ones: a<>:'"/\|?*b
ListName == <<"a", "<", ">", ":", "'", "\"", "/", "\\", "|", "?", "*", "b">>

NameInputs == SeqsUpTo(NameChars, MaxNameLen) \cup {ExampleName, ListName}

\* main.rs:79: the function is called on a name.
InitName ==
    /\ tracks = <<>>
    /\ ordered = FALSE
    /\ delete_unknown_songs = FALSE
    /\ dir = EmptyDir
    /\ pc = "done"
    /\ i = 1
    /\ all_files = <<>>
    /\ sink = None
    /\ stage = "idle"
    /\ mp3_out_buffer = <<>>
    /\ tmp = None
    /\ stop_result = NotReturned
    /\ todo = {}
    /\ run = 1
    /\ id3_tag = None
    /\ input = None
    /\ \E name \in NameInputs : mfc_call = [filename |-> name, clean |-> None, again |-> None]
    /\ hist = NoHist

\* main.rs:79-88: the call returns.
MfcReturn ==
    /\ mfc_call.clean = None
    /\ mfc_call' = [mfc_call EXCEPT !.clean = Some(make_filename_compatible(mfc_call.filename))]
    /\ UNCHANGED <<tracks, ordered, delete_unknown_songs, dir, pc, i, all_files, sink,
                   stage, mp3_out_buffer, tmp, stop_result, todo, run, id3_tag, input, hist>>

\* main.rs:79-88: the function is called on its own result and returns.
MfcAgain ==
    /\ mfc_call.clean # None
    /\ mfc_call.again = None
    /\ mfc_call' = [mfc_call EXCEPT !.again = Some(make_filename_compatible(Get(mfc_call.clean)))]
    /\ UNCHANGED <<tracks, ordered, delete_unknown_songs, dir, pc, i, all_files, sink,
                   stage, mp3_out_buffer, tmp, stop_result, todo, run, id3_tag, input, hist>>

NextName ==
    \/ MfcReturn
    \/ MfcAgain

NameSpec == InitName /\ [][NextName]_vars

\* ---------------------------------------------------------------- properties

\* The extensions the reconciler is to treat as audio.
AudioExtensions == {Some(<<"mp3">>), Some(<<"flac">>), Some(<<"wav">>), Some(<<"ogg">>)}

\* The run's set of base names.
KnownSet == {all_files[k] : k \in 1..Len(all_files)}

\* The base name of the k-th track of the run.
BaseNameOf(k) == file_stem(filename(tracks[k], k, ordered))

\* The paths of the files the sinks of this run committed.
CommittedPaths == {filename(tracks[k], k, ordered) : k \in hist.committed}

IsAudio(entry) == extension(entry) \in AudioExtensions

\* C1: with cleanup enabled, when the reconciliation pass has completed, an
\* entry that was there at the scan is gone if and only if its extension is
\* one of mp3, flac, wav, ogg and its base name is not in the run's set;
\* every other entry is still there with its contents, and nothing is new.
C1_ReconcilerCorrect ==
    (pc = "done" /\ delete_unknown_songs) =>
        /\ hist.scan # None
        /\ LET scan == Get(hist.scan)
           IN /\ DOMAIN dir \subseteq DOMAIN scan
              /\ \A e \in DOMAIN scan :
                    /\ (e \notin DOMAIN dir) <=> (IsAudio(e) /\ file_stem(e) \notin KnownSet)
                    /\ e \in DOMAIN dir => dir[e] = scan[e]

\* A completed pass that deleted an entry and kept both an audio entry whose
\* base name is in the set and an entry that is no audio file.
C1_Witness ==
    /\ pc = "done" /\ delete_unknown_songs /\ run = 1
    /\ hist.deleted # {}
    /\ \E e \in DOMAIN dir : IsAudio(e) /\ file_stem(e) \in KnownSet
    /\ \E e \in DOMAIN dir : ~IsAudio(e)

\* C2: with cleanup disabled the reconciler never runs: the directory is
\* never listed for cleanup, no file that was there when the run started is
\* ever missing, and a file that is new or has other contents is one a sink
\* of this run committed.
C2_NeverImplicit ==
    ~delete_unknown_songs =>
        /\ hist.scan = None
        /\ hist.deleted = {}
        /\ \A n \in DOMAIN hist.before :
              /\ n \in DOMAIN dir
              /\ dir[n] # hist.before[n] => n \in CommittedPaths
        /\ \A n \in DOMAIN dir \ DOMAIN hist.before : n \in CommittedPaths

\* A run without cleanup that has ended, committed a file, and left an
\* audio file whose base name is not in the run's set.
C2_Witness ==
    /\ ~delete_unknown_songs /\ pc = "done" /\ run = 1
    /\ hist.committed # {}
    /\ \E e \in DOMAIN dir : IsAudio(e) /\ file_stem(e) \notin KnownSet

\* C3: the base name of every track processed so far is in all_files, once
\* per track and in order, whether the track was downloaded or skipped; the
\* reconciler lists the directory only after the last track, when no sink is
\* left; and no entry it deleted has the base name of a track of the run.
C3_KnownSetComplete ==
    /\ Len(all_files) <= Len(tracks)
    /\ \A k \in 1..Len(all_files) : all_files[k] = BaseNameOf(k)
    /\ Len(all_files) = (IF pc = "loop" THEN i - 1 ELSE IF i > Len(tracks) THEN Len(tracks) ELSE i)
    /\ hist.scan # None =>
          /\ Len(all_files) = Len(tracks)
          /\ i = Len(tracks) + 1
          /\ sink = None
    /\ \A e \in hist.deleted : \A k \in 1..Len(tracks) : file_stem(e) # BaseNameOf(k)

\* A completed pass that deleted an entry, after a run that skipped one
\* track and committed another; the audio file that caused the skip is
\* still there.
C3_Witness ==
    /\ pc = "done" /\ delete_unknown_songs /\ run = 1
    /\ hist.skipped # {} /\ hist.committed # {} /\ hist.deleted # {}
    /\ \E e \in DOMAIN dir \cap DOMAIN hist.before :
          IsAudio(e) /\ \E k \in hist.skipped : file_stem(e) = BaseNameOf(k)

\* The file visible at path p of directory d.
Visible(d, p) == IF p \in DOMAIN d THEN Some(d[p]) ELSE None

IsOnWrite(r) == Len(r) = 3 /\ r[1] = "Err" /\ r[2] = "OnWrite"

\* A step of the Existence Guard for track i that does not panic.
GuardStep == pc = "loop" /\ i <= Len(tracks) /\ pc' # "aborted"

\* The guard's step skipped the track: the loop went on to the next track
\* with no sink and the directory as it was.
Skipped ==
    /\ i' = i + 1 /\ pc' = "loop" /\ sink' = None
    /\ dir' = dir /\ hist'.opened = hist.opened

\* The guard's step started the download: a sink is open on the track's path.
Downloading ==
    /\ i' = i /\ pc' = "playing" /\ sink' # None
    /\ Get(sink').sink = filename(tracks[i], i, ordered)
    /\ i \in hist'.opened

\* C4: in every step of finalize the file visible at the destination path
\* stays what it was (absent, or the prior file with its contents) or
\* becomes the complete encoded byte stream; and when stop returns
\* SinkError::OnWrite the directory is as it was.
C4_AtomicFinalize ==
    [][pc = "stopping" =>
          /\ \/ Visible(dir', Get(sink).sink) = Visible(dir, Get(sink).sink)
             \/ Visible(dir', Get(sink).sink) = Some(mp3_out_buffer)
          /\ IsOnWrite(stop_result') => dir' = dir]_vars

\* C5: when finalize returns Ok, the file at the destination path holds the
\* whole byte stream, the encode output followed by the flush output.
C5_WholeStream ==
    [][(pc = "stopping" /\ stop_result' = Ok) =>
          Visible(dir', Get(sink).sink) = Some(mp3_out_buffer)]_vars

\* C6: the guard skips a track if and only if some entry of the directory
\* has the track's base name as its stem, whatever the entry's extension
\* and contents; otherwise it opens a sink on the track's path.
C6_ExistenceGuard ==
    [][GuardStep =>
          IF \E e \in DOMAIN dir : file_stem(e) = BaseNameOf(i)
          THEN Skipped ELSE Downloading]_vars

\* The first track was skipped, with mp3 as the output format, in a
\* directory that held a wav file of its base name and nothing else.
C6_Witness ==
    /\ run = 1 /\ 1 \in hist.skipped /\ hist.opened = {}
    /\ DOMAIN hist.before = {BaseNameOf(1) \o <<".", "wav">>}
    /\ extension_from_encoding = <<"mp3">>

\* C7 as stated: the guard skips a track if and only if an entry with the
\* track's base name and a known audio extension exists.
C7_AudioExtensionOnly ==
    [][GuardStep =>
          (Skipped <=> \E e \in DOMAIN dir : file_stem(e) = BaseNameOf(i) /\ IsAudio(e))]_vars

\* C7 as amended: an entry with the track's base name makes the guard skip
\* the track when its extension is a known audio extension and just the
\* same when it is another extension or none.
C7_AnyExtension ==
    [][GuardStep =>
          /\ (\E e \in DOMAIN dir : file_stem(e) = BaseNameOf(i) /\ IsAudio(e)) => Skipped
          /\ (\E e \in DOMAIN dir : file_stem(e) = BaseNameOf(i) /\ ~IsAudio(e)) => Skipped]_vars

\* The first track was skipped in a directory whose only entry of that base
\* name had no audio extension.
C7_Witness ==
    /\ run = 1 /\ 1 \in hist.skipped
    /\ \E e \in DOMAIN hist.before : file_stem(e) = BaseNameOf(1)
    /\ \A e \in DOMAIN hist.before : file_stem(e) = BaseNameOf(1) => ~IsAudio(e)

\* C8: in a second run on the same destination with the same track list and
\* options, after a first run that committed a file for every track, every
\* track is skipped: no sink is opened, nothing is committed or deleted, and
\* the directory stays what the first run left.
C8_SecondRunSkipsAll ==
    (run = 2 /\ hist.prev_committed = 1..Len(tracks)) =>
        /\ hist.opened = {} /\ sink = None
        /\ hist.committed = {} /\ hist.deleted = {}
        /\ dir = hist.before
        /\ hist.skipped = 1..(i - 1)
        /\ pc = "done" => hist.skipped = 1..Len(tracks)

\* A second run of two tracks, with cleanup, that has ended.
C8_Witness ==
    /\ run = 2 /\ pc = "done" /\ Len(tracks) = MaxTracks
    /\ delete_unknown_songs /\ hist.scan # None
    /\ hist.skipped = 1..Len(tracks)

\* C9: when the codec's initialization, encode or flush fails, stop returns
\* an error value that is not SinkError::OnWrite, and the directory is as it
\* was.
C9_EncodeErrorValue ==
    [][(pc = "stopping" /\ stage \in {"build", "encode", "flush"} /\ pc' = "stopped") =>
          /\ stop_result'[1] = "Err"
          /\ ~IsOnWrite(stop_result')
          /\ dir' = dir]_vars

\* C10: when a listing of the directory fails the run aborts; the track
\* whose guard listing failed has opened no sink, and a reconciliation pass
\* whose listing failed has deleted nothing.
C10_ScanErrorSafe ==
    hist.panic = Some("read_dir") =>
        /\ pc = "aborted"
        /\ hist.scan = None => (i <= Len(tracks) => i \notin hist.opened)
        /\ hist.deleted = {}

\* The tracks of the run that have been processed: skipped, or downloaded
\* with the sink's stop ended.
Processed == hist.skipped \cup (hist.opened \cap hist.finalized)

\* C11: tracks are processed one at a time in playlist order.  At most one
\* sink exists, and only while its track is downloaded; the locals of stop
\* (the channels, the byte stream, the temporary file) exist only while that
\* sink's stop runs; and whenever the loop is about to check a track, every
\* track before it, and no other, was skipped or was downloaded with its
\* stop ended and its sink dropped.
C11_Sequential ==
    /\ Cardinality(sink) <= 1
    /\ sink # None <=> pc \in {"playing", "stopping", "stopped"}
    /\ sink # None =>
          /\ i <= Len(tracks)
          /\ Get(sink).sink = filename(tracks[i], i, ordered)
          /\ hist.opened \cup hist.skipped = 1..i
          /\ Processed = IF pc = "stopped" THEN 1..i ELSE 1..(i - 1)
    /\ (stage # "idle" \/ mp3_out_buffer # <<>> \/ tmp # None
          \/ input # None \/ id3_tag # None) => pc = "stopping"
    /\ pc = "loop" =>
          /\ Processed = 1..(i - 1)
          /\ hist.opened \cup hist.skipped = 1..(i - 1)
          /\ hist.requested = hist.opened /\ hist.finalized = hist.opened
    /\ hist.opened \cap hist.skipped = {}

\* The second of two downloads has ended and committed its file after the
\* first one's stop had failed; the loop is past the last track.
C11_Witness ==
    /\ run = 1 /\ pc = "loop" /\ i = 3
    /\ hist.opened = {1, 2} /\ hist.finalized = {1, 2} /\ hist.committed = {2}

\* The order of the steps of stop.
StageOrder ==
    {<<"idle", "build">>, <<"build", "encode">>, <<"encode", "flush">>,
     <<"flush", "write">>, <<"write", "commit">>,
     <<"build", "idle">>, <<"encode", "idle">>, <<"flush", "idle">>,
     <<"write", "idle">>, <<"commit", "idle">>}

\* A step that opens a sink: it is the first for its track, the track was
\* not skipped, and the sink has the track's path, its metadata and no sample.
OpensProperly ==
    (sink = None /\ sink' # None) =>
        /\ i \notin hist.opened \cup hist.skipped
        /\ sink' = Some([sink |-> filename(tracks[i], i, ordered), content |-> <<>>,
                         metadata |-> Some(TrackMetadataOf(tracks[i])), compression |-> 4])

\* A step that changes the sink writes to it: the metadata is there, stop
\* has not been asked for, and the path and the metadata stay.
WritesProperly ==
    (sink # None /\ sink' # None /\ sink' # sink) =>
        /\ pc = "playing" /\ stage = "idle" /\ i \notin hist.requested
        /\ Get(sink).metadata # None
        /\ Get(sink').metadata = Get(sink).metadata
        /\ Get(sink').sink = Get(sink).sink

\* stop is entered once, from the end of the track, and goes through its
\* steps in order until it ends, once.
StopsProperly ==
    /\ stage' # stage => <<stage, stage'>> \in StageOrder
    /\ (stage = "idle" /\ stage' # "idle") =>
          /\ pc = "playing" /\ pc' = "stopping"
          /\ i \in hist.opened /\ i \notin hist.requested /\ i \in hist'.requested
    /\ (pc = "stopping" /\ pc' # "stopping") =>
          /\ pc' = "stopped" /\ i \notin hist.finalized /\ i \in hist'.finalized
    /\ dir' # dir /\ pc = "stopping" => stage = "commit"

\* C12: a track that is not skipped gets one sink, opened on the track's
\* path with the metadata attached before any sample; samples are written
\* only before stop is asked for; stop is asked for at the end of the track
\* and runs its encode-and-commit sequence once per sink, neither never nor
\* twice; a skipped track gets no sink and no stop.
C12_SinkLifecycle ==
    /\ [](/\ hist.committed \subseteq hist.finalized
          /\ hist.finalized \subseteq hist.requested
          /\ hist.requested \subseteq hist.opened
          /\ hist.skipped \cap hist.opened = {}
          /\ pc \in {"loop", "reconcile", "done"} => hist.finalized = hist.opened
          /\ pc = "stopped" => i \in hist.finalized
          /\ sink # None => (Get(sink).content # <<>> => Get(sink).metadata # None))
    /\ [][OpensProperly /\ WritesProperly /\ StopsProperly]_vars

\* The first track was skipped; the second was downloaded with a sample
\* written, and its stop has ended with the file committed.
C12_Witness ==
    /\ run = 1 /\ pc = "stopped" /\ i = 2 /\ stop_result = Ok
    /\ hist.skipped = {1} /\ hist.committed = {2}
    /\ Get(sink).content # <<>>

\* The artist tag for a list of one, two or three artists.
ArtistTag(artists) ==
    IF Len(artists) = 1 THEN artists[1]
    ELSE IF Len(artists) = 2 THEN artists[1] \o <<", ">> \o artists[2]
    ELSE artists[1] \o <<", ">> \o artists[2] \o <<", ">> \o artists[3]

\* C13: once stop has configured the encoder, the tag it gave is: with
\* metadata attached, title = track_name, artist = the artists in order
\* joined with ", " (one artist: the name alone), album = album, year and
\* comment empty; without metadata, none.  Either way a stop that returns
\* Ok has committed a file at the sink's path.
C13_MetadataEmbedding ==
    /\ stage \in {"encode", "flush", "write", "commit"} =>
          IF Get(sink).metadata = None THEN id3_tag = None
          ELSE /\ id3_tag # None
               /\ Get(id3_tag).title = Get(Get(sink).metadata).track_name
               /\ Get(id3_tag).artist = ArtistTag(Get(Get(sink).metadata).artists)
               /\ Get(id3_tag).album = Get(Get(sink).metadata).album
               /\ Get(id3_tag).year = <<>>
               /\ Get(id3_tag).comment = <<>>
    /\ (pc = "stopped" /\ stop_result = Ok) =>
          /\ Get(sink).sink \in DOMAIN dir
          /\ hist.committed = {1}

\* stop has configured the encoder for a sink with the metadata of a track
\* by X and Y: the artist tag is "X, Y".
C13_Witness ==
    /\ stage = "encode"
    /\ Get(sink).metadata = Some(TrackMetadataOf(TrackB))
    /\ id3_tag = Some([title |-> <<"t", ".", "u">>, artist |-> <<"X", ", ", "Y">>,
                       album |-> <<"L">>, year |-> <<>>, comment |-> <<>>])

\* The characters the sanitization is to keep: ASCII, no control character,
\* none of < > : ' " / \ | ? *
IsKept(c) ==
    /\ c \notin {"U+00E9"}
    /\ c \notin {"\t", "\n"}
    /\ c \notin {"<", ">", ":", "'", "\"", "/", "\\", "|", "?", "*"}

\* C14: the result of make_filename_compatible is the subsequence of the
\* kept characters of its argument, in order; it holds no path separator
\* and no removed character; "A/B: C*D" gives "AB CD"; and the function
\* applied to its own result returns it unchanged.
C14_Sanitization ==
    /\ mfc_call.clean # None =>
          /\ Get(mfc_call.clean) = SelectSeq(mfc_call.filename, IsKept)
          /\ \A k \in 1..Len(Get(mfc_call.clean)) :
                /\ IsKept(Get(mfc_call.clean)[k])
                /\ Get(mfc_call.clean)[k] \notin {"/", "\\"}
          /\ mfc_call.filename = ExampleName =>
                Get(mfc_call.clean) = <<"A", "B", " ", "C", "D">>
    /\ mfc_call.again # None => mfc_call.again = mfc_call.clean

\* The function has returned "AB CD" for "A/B: C*D", and "AB CD" again for
\* that.
C14_Witness ==
    /\ mfc_call.filename = <<"A", "/", "B", ":", " ", "C", "*", "D">>
    /\ mfc_call.clean = Some(<<"A", "B", " ", "C", "D">>)
    /\ mfc_call.again = Some(<<"A", "B", " ", "C", "D">>)

\* C15: the channels stop gives the encoder are the samples at the even
\* and at the odd positions of the buffer, in order (counted from 0:
\* left[k] = buffer[2k], right[k] = buffer[2k+1]), and both have length
\* floor(n/2) for a buffer of n samples, a trailing odd sample being dropped.
C15_ChannelSplit ==
    input # None =>
        LET buffer == Get(sink).content
            left == Get(input).left
            right == Get(input).right
        IN /\ Len(left) = Len(buffer) \div 2
           /\ Len(right) = Len(buffer) \div 2
           /\ \A k \in 1..Len(left) : left[k] = buffer[2 * k - 1]
           /\ \A k \in 1..Len(right) : right[k] = buffer[2 * k]

\* The 16-bit sample of a decoded sample given in halves.
S16(v) == IF v = 2 THEN 32767 ELSE IF v = -2 THEN -32768 ELSE IF v = 1 THEN 16384 ELSE 0

RECURSIVE Delivered(_)
\* The 16-bit samples of a sequence of packets, in the order of delivery.
Delivered(packets) ==
    IF packets = <<>> THEN <<>>
    ELSE Delivered(SubSeq(packets, 1, Len(packets) - 1))
         \o [k \in 1..Len(packets[Len(packets)]) |-> S16(packets[Len(packets)][k])]

\* A step in which a packet is delivered.
WriteStep == hist'.packets # hist.packets

\* C16: open gives a sink with an empty buffer and no metadata; the buffer
\* is always the samples of the packets delivered so far, in the order of
\* delivery; and a write appends the samples of its packet and changes
\* neither the path, the metadata, a file nor where the sink's owner is.
C16_BufferAccumulation ==
    /\ sink = Some([sink |-> filename(tracks[1], 1, ordered), content |-> <<>>,
                    metadata |-> None, compression |-> 4])
    /\ [](sink # None /\ Get(sink).content = Delivered(hist.packets))
    /\ [][WriteStep =>
            /\ hist'.packets = Append(hist.packets, hist'.packets[Len(hist'.packets)])
            /\ Get(sink').content =
                  Get(sink).content \o Delivered(<<hist'.packets[Len(hist'.packets)]>>)
            /\ Get(sink').sink = Get(sink).sink
            /\ Get(sink').metadata = Get(sink).metadata
            /\ Get(sink').compression = Get(sink).compression
            /\ dir' = dir /\ tmp' = tmp /\ pc' = pc /\ stop_result' = stop_result]_vars

\* Two packets were delivered to a sink with metadata, one sample and then
\* two: the buffer holds the three samples in that order.
C16_Witness ==
    /\ hist.packets = << <<1>>, <<2, -2>> >>
    /\ Get(sink).content = <<16384, 32767, -32768>>
    /\ Get(sink).metadata # None

\* A step taken while the end of the track is awaited either is the end of
\* the track, or leaves the run at the same track with no listing made.
WaitsForEndOfTrack ==
    pc = "playing" =>
        \/ pc' = "stopping" /\ i \in hist'.requested /\ i' = i
        \/ /\ pc' = "playing" /\ i' = i /\ all_files' = all_files
           /\ hist'.scan = hist.scan /\ hist'.finalized = hist.finalized /\ dir' = dir

PathOf(k) == filename(tracks[k], k, ordered)

\* C18: of two tracks of a run with the same base name, when the earlier
\* one has committed its file the later one opens no sink and is skipped
\* when its turn comes; and a file a track of the run has committed stays
\* as it was committed for the rest of the run.
C18_NoOverwriteWithinRun ==
    /\ [](\A j \in hist.committed : \A k \in (j + 1)..Len(tracks) :
            BaseNameOf(j) = BaseNameOf(k) =>
                /\ k \notin hist.opened
                /\ k < i => k \in hist.skipped)
    /\ [][run' = run =>
            \A j \in hist.committed :
                /\ PathOf(j) \in DOMAIN dir'
                /\ dir'[PathOf(j)] = dir[PathOf(j)]]_vars

\* Two tracks whose titles sanitize to the same name, without the ordered
\* prefix: the first one committed its file, the second one was skipped,
\* and the file is as the first one left it.
C18_Witness ==
    /\ run = 1 /\ ~ordered /\ tracks = <<TrackA, TrackC>>
    /\ hist.committed = {1} /\ hist.skipped = {2} /\ hist.opened = {1}
    /\ PathOf(1) \in DOMAIN dir /\ dir[PathOf(1)] = <<1, 2>>

====
